---- MODULE Spec2Model ----
(***************************************************************************)
(* Model of shoe_tracker.analyzer.ActivityAnalyzer: the normalizer         *)
(* (_activities_to_dataframe) and the five report methods.                 *)
(*                                                                         *)
(* Representation choices:                                                 *)
(*  - Python None / pandas NaN / NaT is an option record [some, v].        *)
(*  - A float is an exact reduced fraction [n, d]; binary floating-point   *)
(*    representation error is not modelled.                                *)
(*  - A strftime label is the tuple of its character codes, compared       *)
(*    lexicographically as Python compares str.                            *)
(*  - A DataFrame is the sequence of its rows; pd.DataFrame([]) has no     *)
(*    rows and no columns.                                                 *)
(***************************************************************************)
EXTENDS Integers, Sequences, FiniteSets, TLC

VARIABLES activities, constructed, df, last, pc, call, local, result

vars == <<activities, constructed, df, last, pc, call, local, result>>

-----------------------------------------------------------------------------
(* Bounds *)

MaxActs == 2

NumThreads == 2

-----------------------------------------------------------------------------
(* Optional values *)

Some(x) == [some |-> TRUE, v |-> x]

NoneStr == [some |-> FALSE, v |-> ""]

NoneNum == [some |-> FALSE, v |-> 0]

NoneDate == [some |-> FALSE, v |-> [year |-> 0, month |-> 0, day |-> 0]]

NoneLabel == [some |-> FALSE, v |-> <<>>]

NoneDict == [some |-> FALSE, v |-> {}]

-----------------------------------------------------------------------------
(* Floats as exact reduced fractions *)

RECURSIVE Gcd(_, _)
Gcd(a, b) == IF b = 0 THEN a ELSE Gcd(b, a % b)

Abs(x) == IF x < 0 THEN -x ELSE x

Frac(n, d) ==
    LET g == Gcd(Abs(n), d)
    IN  [n |-> n \div g, d |-> d \div g]

Zero == [n |-> 0, d |-> 1]

FracAdd(a, b) == Frac(a.n * b.d + b.n * a.d, a.d * b.d)

FracLE(a, b) == a.n * b.d <= b.n * a.d

(* the rounding left out *)
Round2_None(x) == x

(* round(x, 2): nearest multiple of 1/100, ties to the even multiple *)
Round2(x) ==
    LET q == (100 * x.n) \div x.d
        r == 100 * x.n - q * x.d
        k == IF 2 * r < x.d THEN q
             ELSE IF 2 * r > x.d THEN q + 1
             ELSE IF q % 2 = 0 THEN q ELSE q + 1
    IN  Frac(k, 100)

-----------------------------------------------------------------------------
(* Calendar arithmetic and strftime *)

IsLeap(y) == (y % 4 = 0 /\ y % 100 # 0) \/ y % 400 = 0

DaysBeforeMonth(y, m) ==
    LET cum == <<0, 31, 59, 90, 120, 151, 181, 212, 243, 273, 304, 334>>
    IN  cum[m] + (IF m > 2 /\ IsLeap(y) THEN 1 ELSE 0)

(* day of the year, 1 January = 1 *)
DayOfYear(dt) == DaysBeforeMonth(dt.year, dt.month) + dt.day

(* proleptic Gregorian ordinal, 0001-01-01 = 1 (a Monday) *)
Ordinal(dt) ==
    LET y == dt.year - 1
    IN  365 * y + y \div 4 - y \div 100 + y \div 400 + DayOfYear(dt)

(* day of the week, Sunday = 0 *)
WeekdaySun0(dt) == Ordinal(dt) % 7

(* %W: week of the year, Monday first *)
WeekU_MondayFirst(dt) == (DayOfYear(dt) - 1 + 7 - ((Ordinal(dt) + 6) % 7)) \div 7

(* %U: week of the year, Sunday first; days before the first Sunday are week 0 *)
WeekU(dt) == (DayOfYear(dt) - 1 + 7 - WeekdaySun0(dt)) \div 7

Digit(k) == 48 + k

Pad2(k) == <<Digit(k \div 10), Digit(k % 10)>>

Pad4(k) == <<Digit(k \div 1000), Digit((k \div 100) % 10),
             Digit((k \div 10) % 10), Digit(k % 10)>>

(* strftime('%Y-W%U'): "-" is 45, "W" is 87 *)
StrfYearWeek(dt) == Pad4(dt.year) \o <<45, 87>> \o Pad2(WeekU(dt))

(* strftime('%Y-%m') *)
StrfYearMonth(dt) == Pad4(dt.year) \o <<45>> \o Pad2(dt.month)

RECURSIVE LexLT(_, _)
LexLT(a, b) ==
    IF b = <<>> THEN FALSE
    ELSE IF a = <<>> THEN TRUE
    ELSE IF Head(a) # Head(b) THEN Head(a) < Head(b)
    ELSE LexLT(Tail(a), Tail(b))

-----------------------------------------------------------------------------
(* Raw activities *)

Act(id, name, type, date, distance, moving, elapsed, gain, gear) ==
    [id |-> id, name |-> name, type |-> type, start_date_local |-> date,
     distance |-> distance, moving_time |-> moving, elapsed_time |-> elapsed,
     total_elevation_gain |-> gain, gear_id |-> gear]

Date(y, m, d) == Some([year |-> y, month |-> m, day |-> d])

LongRun ==
    Act(1, "Long run", Some("Run"), Date(2023, 12, 30),
        Some(10000), Some(3600), Some(4000), Some(100), Some("g1"))

Easy ==
    Act(2, "Easy", NoneStr, Date(2023, 12, 31),
        Some(5005), Some(1800), Some(1800), NoneNum, Some("g2"))

Barefoot ==
    Act(3, "Barefoot", Some("Run"), Date(2024, 1, 1),
        NoneNum, NoneNum, NoneNum, Some(0), NoneStr)

Descent ==
    Act(1, "Descent", Some("Hike"), Date(2024, 1, 7),
        Some(2500), Some(900), NoneNum, Some(-5), Some(""))

Treadmill ==
    Act(5, "Treadmill", Some(""), NoneDate,
        Some(0), Some(1234), Some(1234), Some(12), Some("g1"))

Tempo ==
    Act(6, "Tempo", Some("Run"), Date(2024, 1, 6),
        Some(7333), Some(2000), Some(2100), Some(55), Some("g1"))

Recovery ==
    Act(7, "Recovery", Some("Run"), Date(2023, 12, 30),
        Some(1005), Some(600), Some(600), Some(3), Some("g2"))

Walk ==
    Act(8, "Walk", Some("Walk"), NoneDate,
        Some(3000), Some(2400), Some(2500), Some(20), NoneStr)

(* The activities an input sequence is drawn from. *)
ActivityPool ==
    {LongRun, Easy, Barefoot, Descent, Treadmill, Tempo, Recovery, Walk}

(* The inputs of the analyzer that several threads call. *)
ConcInputs ==
    {<<>>, <<LongRun, Easy>>, <<Barefoot, Tempo, Recovery>>, <<Treadmill, Descent>>}

RECURSIVE SeqsUpTo(_, _)
SeqsUpTo(S, n) ==
    IF n = 0 THEN {<<>>}
    ELSE LET shorter == SeqsUpTo(S, n - 1)
         IN  shorter \cup {Append(s, x) : s \in shorter, x \in S}

-----------------------------------------------------------------------------
(* Normalizer *)

(* Python truthiness of an optional number / string *)
TruthyNum(o) == o.some /\ o.v # 0

TruthyStr(o) == o.some /\ o.v # ""

(* the distance kept in metres *)
DistanceKm_NoScale(a) ==
    IF a.distance.some /\ a.distance.v # 0 THEN [n |-> a.distance.v, d |-> 1]
    ELSE [n |-> 0, d |-> 1]

DistanceKm(a) == IF TruthyNum(a.distance) THEN Frac(a.distance.v, 1000) ELSE Zero

MovingTimeHours(a) ==
    IF TruthyNum(a.moving_time) THEN Frac(a.moving_time.v, 3600) ELSE Zero

ElapsedTimeHours(a) ==
    IF TruthyNum(a.elapsed_time) THEN Frac(a.elapsed_time.v, 3600) ELSE Zero

ElevationGainM(a) ==
    IF TruthyNum(a.total_elevation_gain)
    THEN Frac(a.total_elevation_gain.v, 1) ELSE Zero

GearId(a) == IF TruthyStr(a.gear_id) THEN a.gear_id ELSE NoneStr

(* the record built for one activity, with the date-derived columns *)
Record(a) ==
    LET dt == a.start_date_local
    IN  [id |-> a.id,
         name |-> a.name,
         type |-> IF TruthyStr(a.type) THEN a.type.v ELSE "Unknown",
         date |-> dt,
         distance_km |-> DistanceKm(a),
         moving_time_hours |-> MovingTimeHours(a),
         elapsed_time_hours |-> ElapsedTimeHours(a),
         elevation_gain_m |-> ElevationGainM(a),
         gear_id |-> GearId(a),
         year |-> IF dt.some THEN Some(dt.v.year) ELSE NoneNum,
         month |-> IF dt.some THEN Some(dt.v.month) ELSE NoneNum,
         year_week |-> IF dt.some THEN Some(StrfYearWeek(dt.v)) ELSE NoneLabel,
         year_month |-> IF dt.some THEN Some(StrfYearMonth(dt.v)) ELSE NoneLabel]

(* activities deduplicated on their identifier, the first one kept *)
ActivitiesToDataframe_Dedup(acts) ==
    LET first == {i \in 1..Len(acts) : \A j \in 1..(i - 1) : acts[j].id # acts[i].id}
        F[i \in 0..Len(acts)] ==
            IF i = 0 THEN <<>>
            ELSE IF i \in first THEN Append(F[i - 1], Record(acts[i])) ELSE F[i - 1]
    IN  F[Len(acts)]

ActivitiesToDataframe(acts) == [i \in 1..Len(acts) |-> Record(acts[i])]

(* the emptiness check left out *)
DfEmpty_Never(d) == FALSE

DfEmpty(d) == Len(d) = 0

-----------------------------------------------------------------------------
(* Aggregator *)

Methods == {"summary", "weekly", "monthly", "yearly"}

(* a returned DataFrame, or the exception that escaped the call *)
Frame(rows) == [error |-> "none", rows |-> rows]

EmptyFrame == Frame(<<>>)

KeyErrorRaised == [error |-> "KeyError", rows |-> <<>>]

(* Python's order on the equipment identifiers of the model *)
GearOrder == <<"g1", "g2", "g3">>

StrLT(a, b) ==
    LET rank(s) == CHOOSE i \in 1..Len(GearOrder) : GearOrder[i] = s
    IN  rank(a) < rank(b)

(* the bucket column a report groups on; the shoe summary has none *)
BucketColumn(method, r) ==
    CASE method = "summary" -> Some(<<>>)
      [] method = "weekly" -> r.year_week
      [] method = "monthly" -> r.year_month
      [] method = "yearly" -> r.year

BucketLT(method, a, b) == IF method = "yearly" THEN a < b ELSE LexLT(a, b)

(* groupby(..., dropna=True): a row with a missing key value is in no group *)
HasGroupKey(method, r) == BucketColumn(method, r).some /\ r.gear_id.some

GroupKeyOf(method, r) ==
    [bucket |-> BucketColumn(method, r).v, gear_id |-> r.gear_id.v]

GroupKeys(method, d) ==
    {GroupKeyOf(method, d[i]) : i \in {j \in 1..Len(d) : HasGroupKey(method, d[j])}}

KeyLT(method, a, b) ==
    \/ BucketLT(method, a.bucket, b.bucket)
    \/ a.bucket = b.bucket /\ StrLT(a.gear_id, b.gear_id)

(* groupby(..., sort=True): the group keys in ascending order *)
RECURSIVE SortedKeys(_, _)
SortedKeys(method, K) ==
    IF K = {} THEN <<>>
    ELSE LET least == CHOOSE k \in K : \A o \in K \ {k} : KeyLT(method, k, o)
         IN  <<least>> \o SortedKeys(method, K \ {least})

RECURSIVE SumColumn(_, _, _, _, _)
SumColumn(method, d, key, column, i) ==
    IF i > Len(d) THEN Zero
    ELSE LET rest == SumColumn(method, d, key, column, i + 1)
         IN  IF HasGroupKey(method, d[i]) /\ GroupKeyOf(method, d[i]) = key
             THEN FracAdd(d[i][column], rest) ELSE rest

(* the ids of the whole frame counted into every group *)
CountIds_All(method, d, key) == Cardinality({i \in 1..Len(d) : HasGroupKey(method, d[i])})

(* 'id': 'count' *)
CountIds(method, d, key) ==
    Cardinality({i \in 1..Len(d) :
        HasGroupKey(method, d[i]) /\ GroupKeyOf(method, d[i]) = key})

(* one output row per keyed input row, as a transform instead of an agg *)
GroupByAgg_PerRow(method, d) ==
    LET keyed == SelectSeq(d, LAMBDA r : HasGroupKey(method, r))
    IN  [n \in 1..Len(keyed) |->
            [bucket |-> GroupKeyOf(method, keyed[n]).bucket,
             gear_id |-> keyed[n].gear_id,
             distance_km |-> keyed[n].distance_km,
             moving_time_hours |-> keyed[n].moving_time_hours,
             elapsed_time_hours |-> keyed[n].elapsed_time_hours,
             elevation_gain_m |-> keyed[n].elevation_gain_m,
             activity_count |-> 1]]

(* groupby(...).agg({... 'sum', 'id': 'count'}).reset_index() *)
GroupByAgg(method, d) ==
    LET keys == SortedKeys(method, GroupKeys(method, d))
    IN  [n \in 1..Len(keys) |->
            [bucket |-> keys[n].bucket,
             gear_id |-> Some(keys[n].gear_id),
             distance_km |-> SumColumn(method, d, keys[n], "distance_km", 1),
             moving_time_hours |-> SumColumn(method, d, keys[n], "moving_time_hours", 1),
             elapsed_time_hours |-> SumColumn(method, d, keys[n], "elapsed_time_hours", 1),
             elevation_gain_m |-> SumColumn(method, d, keys[n], "elevation_gain_m", 1),
             activity_count |-> CountIds(method, d, keys[n])]]

(* a gear_info dictionary is a set of <<gear_id, name>> pairs *)
DictKeys(dict) == {kv[1] : kv \in dict}

DictGet(dict, k) == (CHOOSE kv \in dict : kv[1] = k)[2]

(* if gear_info is not None *)
TruthyDict_Given(gear_info) == gear_info.some

(* if gear_info: a dictionary that is given and not empty *)
TruthyDict(gear_info) == gear_info.some /\ gear_info.v # {}

(* gear_id.map(gear_info).fillna('Unknown Shoe') *)
MapName(dict, gear_id) ==
    IF gear_id.some /\ gear_id.v \in DictKeys(dict)
    THEN DictGet(dict, gear_id.v) ELSE "Unknown Shoe"

(* the synthesized name without its "Shoe " prefix *)
SynthName_Bare(gear_id) ==
    IF gear_id.some /\ gear_id.v # "" THEN gear_id.v ELSE "No Shoe"

(* lambda x: f'Shoe {x}' if x else 'No Shoe' *)
SynthName(gear_id) ==
    IF TruthyStr(gear_id) THEN "Shoe " \o gear_id.v ELSE "No Shoe"

ShoeName(gear_info, gear_id) ==
    IF TruthyDict(gear_info) THEN MapName(gear_info.v, gear_id)
    ELSE SynthName(gear_id)

(* sort_values(column, ascending=False): stable insertion of each row *)
RECURSIVE InsertDesc(_, _, _)
InsertDesc(method, sorted, row) ==
    IF sorted = <<>> THEN <<row>>
    ELSE IF BucketLT(method, Head(sorted).bucket, row.bucket)
         THEN <<row>> \o sorted
         ELSE <<Head(sorted)>> \o InsertDesc(method, Tail(sorted), row)

RECURSIVE SortRec(_, _, _)
SortRec(method, rows, i) ==
    IF i = 0 THEN <<>>
    ELSE InsertDesc(method, SortRec(method, rows, i - 1), rows[i])

(* the groups left in groupby order, ascending *)
SortValuesDesc_Unsorted(method, rows) == rows

SortValuesDesc(method, rows) == SortRec(method, rows, Len(rows))

SummaryRow(g, gear_info) ==
    [shoe_name |-> ShoeName(gear_info, g.gear_id),
     gear_id |-> g.gear_id,
     total_distance_km |-> Round2(g.distance_km),
     total_moving_time_hours |-> Round2(g.moving_time_hours),
     total_elevation_gain_m |-> Round2(g.elevation_gain_m),
     activity_count |-> g.activity_count]

BucketRow(g, gear_info) ==
    [bucket |-> g.bucket,
     shoe_name |-> ShoeName(gear_info, g.gear_id),
     gear_id |-> g.gear_id,
     distance_km |-> Round2(g.distance_km),
     moving_time_hours |-> Round2(g.moving_time_hours),
     elevation_gain_m |-> Round2(g.elevation_gain_m),
     activity_count |-> g.activity_count]

(* pd.DataFrame([]) has no columns: selecting or grouping on one raises *)
HasColumns(d) == Len(d) > 0

ShoeSummaryBody(d, gear_info) ==
    IF ~HasColumns(d) THEN KeyErrorRaised
    ELSE LET summary == GroupByAgg("summary", d)
         IN  Frame([n \in 1..Len(summary) |-> SummaryRow(summary[n], gear_info)])

(* the body shared by the weekly, monthly and yearly report *)
BucketReport(method, d, gear_info) ==
    IF ~HasColumns(d) THEN KeyErrorRaised
    ELSE LET groups == GroupByAgg(method, d)
             named == [n \in 1..Len(groups) |-> BucketRow(groups[n], gear_info)]
         IN  Frame(SortValuesDesc(method, named))

(* the filter left out *)
FilterGear_None(d, gear_id) == d

(* result[result['gear_id'] == gear_id], applied only to a truthy argument *)
FilterGear(d, gear_id) ==
    IF TruthyStr(gear_id)
    THEN SelectSeq(d, LAMBDA r : r.gear_id.some /\ r.gear_id.v = gear_id.v)
    ELSE d

ActivityRow(r) ==
    [date |-> r.date, name |-> r.name, type |-> r.type,
     distance_km |-> r.distance_km, moving_time_hours |-> r.moving_time_hours,
     elevation_gain_m |-> r.elevation_gain_m, gear_id |-> r.gear_id]

(* a before b in sort_values('date', ascending=False): NaT goes last *)
DateAfter(a, b) == a.some /\ (~b.some \/ Ordinal(a.v) > Ordinal(b.v))

RECURSIVE InsertByDate(_, _)
InsertByDate(sorted, row) ==
    IF sorted = <<>> THEN <<row>>
    ELSE IF DateAfter(row.date, Head(sorted).date)
         THEN <<row>> \o sorted
         ELSE <<Head(sorted)>> \o InsertByDate(Tail(sorted), row)

RECURSIVE SortByDateRec(_, _)
SortByDateRec(rows, i) ==
    IF i = 0 THEN <<>>
    ELSE InsertByDate(SortByDateRec(rows, i - 1), rows[i])

SortByDateDesc(rows) == SortByDateRec(rows, Len(rows))

ActivitiesByShoeBody(d, gear_id) ==
    IF ~HasColumns(d) THEN KeyErrorRaised
    ELSE LET kept == FilterGear(d, gear_id)
         IN  Frame(SortByDateDesc([n \in 1..Len(kept) |-> ActivityRow(kept[n])]))

GetShoeSummary(d, gear_info) ==
    IF DfEmpty(d) THEN EmptyFrame ELSE ShoeSummaryBody(d, gear_info)

GetWeeklyReport(d, gear_info) ==
    IF DfEmpty(d) THEN EmptyFrame ELSE BucketReport("weekly", d, gear_info)

GetMonthlyReport(d, gear_info) ==
    IF DfEmpty(d) THEN EmptyFrame ELSE BucketReport("monthly", d, gear_info)

GetYearlyReport(d, gear_info) ==
    IF DfEmpty(d) THEN EmptyFrame ELSE BucketReport("yearly", d, gear_info)

GetActivitiesByShoe(d, gear_id) ==
    IF DfEmpty(d) THEN EmptyFrame ELSE ActivitiesByShoeBody(d, gear_id)

(* the gear filter applied to self.df itself instead of to a copy *)
DfAfterCall_FilterInPlace(c, d) ==
    IF c.method = "activities" /\ c.gear_id.some /\ c.gear_id.v # ""
    THEN SelectSeq(d, LAMBDA r : r.gear_id.some /\ r.gear_id.v = c.gear_id.v)
    ELSE d

(* self.df sorted in place by get_activities_by_shoe *)
DfAfterCall_SortInPlace(c, d) ==
    IF c.method = "activities" THEN SortByDateDesc(d) ELSE d

(* self.df after a report call: every method reads it, none assigns it *)
DfAfterCall(c, d) == d

-----------------------------------------------------------------------------
(* Calls *)

Call(method, gear_info, gear_id) ==
    [method |-> method, gear_info |-> gear_info, gear_id |-> gear_id]

NoCall == Call("none", NoneDict, NoneStr)

NoResult == [error |-> "none", rows |-> <<>>]

DirA == Some({<<"g1", "Shoe A">>})

DirOther == Some({<<"g3", "Shoe C">>})

EmptyDir == Some({})

GearInfos == {NoneDict, EmptyDir, DirA, DirOther}

GearArgs == {NoneStr, Some(""), Some("g1"), Some("g2")}

(* the part of a call after its `if self.df.empty` check *)
Body(c, d) ==
    CASE c.method = "summary" -> ShoeSummaryBody(d, c.gear_info)
      [] c.method \in {"weekly", "monthly", "yearly"} ->
            BucketReport(c.method, d, c.gear_info)
      [] c.method = "activities" -> ActivitiesByShoeBody(d, c.gear_id)

-----------------------------------------------------------------------------
(* One caller: each report call is one step *)

Init ==
    /\ activities \in SeqsUpTo(ActivityPool, MaxActs)
    /\ constructed = FALSE
    /\ df = <<>>
    /\ last = [call |-> NoCall, result |-> NoResult]
    /\ pc = [t \in 1..NumThreads |-> "idle"]
    /\ call = [t \in 1..NumThreads |-> NoCall]
    /\ local = [t \in 1..NumThreads |-> FALSE]
    /\ result = [t \in 1..NumThreads |-> NoResult]

(* ActivityAnalyzer.__init__ *)
Construct ==
    /\ ~constructed
    /\ constructed' = TRUE
    /\ df' = ActivitiesToDataframe(activities)
    /\ UNCHANGED <<activities, last, pc, call, local, result>>

Returned(c, r) ==
    /\ constructed
    /\ last' = [call |-> c, result |-> r]
    /\ df' = DfAfterCall(c, df)
    /\ UNCHANGED <<activities, constructed, pc, call, local, result>>

ShoeSummary(gear_info) ==
    Returned(Call("summary", gear_info, NoneStr), GetShoeSummary(df, gear_info))

WeeklyReport(gear_info) ==
    Returned(Call("weekly", gear_info, NoneStr), GetWeeklyReport(df, gear_info))

MonthlyReport(gear_info) ==
    Returned(Call("monthly", gear_info, NoneStr), GetMonthlyReport(df, gear_info))

YearlyReport(gear_info) ==
    Returned(Call("yearly", gear_info, NoneStr), GetYearlyReport(df, gear_info))

ActivitiesByShoe(gear_id) ==
    Returned(Call("activities", NoneDict, gear_id), GetActivitiesByShoe(df, gear_id))

Next ==
    \/ Construct
    \/ \E gi \in GearInfos : ShoeSummary(gi)
    \/ \E gi \in GearInfos : WeeklyReport(gi)
    \/ \E gi \in GearInfos : MonthlyReport(gi)
    \/ \E gi \in GearInfos : YearlyReport(gi)
    \/ \E g \in GearArgs : ActivitiesByShoe(g)

Spec == Init /\ [][Next]_vars

-----------------------------------------------------------------------------
(* Several threads on one analyzer: a call checks self.df.empty, then runs  *)
(* its body on self.df, then returns.                                      *)

Threads == 1..NumThreads

ConcCalls ==
    {Call("summary", NoneDict, NoneStr), Call("weekly", DirA, NoneStr),
     Call("monthly", NoneDict, NoneStr), Call("yearly", DirA, NoneStr),
     Call("activities", NoneDict, NoneStr), Call("activities", NoneDict, Some("g1"))}

ConcInit ==
    /\ activities \in ConcInputs
    /\ constructed = FALSE
    /\ df = <<>>
    /\ last = [call |-> NoCall, result |-> NoResult]
    /\ pc = [t \in Threads |-> "idle"]
    /\ call = [t \in Threads |-> NoCall]
    /\ local = [t \in Threads |-> FALSE]
    /\ result = [t \in Threads |-> NoResult]

(* enter a method and evaluate `if self.df.empty` *)
Begin(t, c) ==
    /\ constructed
    /\ pc[t] = "idle"
    /\ pc' = [pc EXCEPT ![t] = "checked"]
    /\ call' = [call EXCEPT ![t] = c]
    /\ local' = [local EXCEPT ![t] = DfEmpty(df)]
    /\ result' = [result EXCEPT ![t] = NoResult]
    /\ UNCHANGED <<activities, constructed, df, last>>

(* the early return, or the body run on self.df as it is now *)
Compute(t) ==
    /\ pc[t] = "checked"
    /\ pc' = [pc EXCEPT ![t] = "returned"]
    /\ result' = [result EXCEPT ![t] =
                     IF local[t] THEN EmptyFrame ELSE Body(call[t], df)]
    /\ df' = DfAfterCall(call[t], df)
    /\ UNCHANGED <<activities, constructed, last, call, local>>

(* the caller drops the result and is free to call again *)
Return(t) ==
    /\ pc[t] = "returned"
    /\ pc' = [pc EXCEPT ![t] = "idle"]
    /\ call' = [call EXCEPT ![t] = NoCall]
    /\ local' = [local EXCEPT ![t] = FALSE]
    /\ result' = [result EXCEPT ![t] = NoResult]
    /\ UNCHANGED <<activities, constructed, df, last>>

ConcNext ==
    \/ Construct
    \/ \E t \in Threads, c \in ConcCalls : Begin(t, c)
    \/ \E t \in Threads : Compute(t)
    \/ \E t \in Threads : Return(t)

SpecConc == ConcInit /\ [][ConcNext]_vars

-----------------------------------------------------------------------------
(* Properties *)

Rows == last.result.rows

RowIdx == 1..Len(Rows)

ActIdx == 1..Len(activities)

ReportReturned == constructed /\ last.call.method \in Methods

BucketReturned == constructed /\ last.call.method \in {"weekly", "monthly", "yearly"}

(* an input activity whose equipment identifier is absent or empty *)
NoGear(a) == ~a.gear_id.some \/ a.gear_id.v = ""

NoGearCount == Cardinality({i \in ActIdx : NoGear(activities[i])})

RECURSIVE SumCounts(_, _)
SumCounts(rows, i) ==
    IF i > Len(rows) THEN 0 ELSE rows[i].activity_count + SumCounts(rows, i + 1)

(* the input activities that have the grouping key of the returned report *)
KeyedCount ==
    IF last.call.method = "summary" THEN Len(activities)
    ELSE Cardinality({i \in ActIdx : activities[i].start_date_local.some})

(* C1: when some input activity has no gear_id, the shoe summary holds      *)
(* exactly one row with a null gear_id, counting those activities and named *)
(* "No Shoe".                                                               *)
C1_NullGearGrouped ==
    (constructed /\ last.call.method = "summary" /\ NoGearCount > 0) =>
        /\ Cardinality({n \in RowIdx : ~Rows[n].gear_id.some}) = 1
        /\ \A n \in RowIdx :
              ~Rows[n].gear_id.some =>
                  /\ Rows[n].activity_count = NoGearCount
                  /\ Rows[n].shoe_name = "No Shoe"

(* C2: for a non-empty input, the activity_count values of a report add up  *)
(* to the number of input activities that have the report's grouping key,   *)
(* activities without gear_id included.                                     *)
C2_CountsAddUp ==
    (ReportReturned /\ activities # <<>>) => SumCounts(Rows, 1) = KeyedCount

(* C3: with a directory given, a row is named directory[gear_id] when       *)
(* gear_id is a key, "Unknown Shoe" when gear_id is non-null and no key,    *)
(* and "No Shoe" when gear_id is null.                                      *)
C3_DirectoryNames ==
    (ReportReturned /\ last.call.gear_info.some) =>
        \A n \in RowIdx :
            LET g == Rows[n].gear_id
                dict == last.call.gear_info.v
            IN  Rows[n].shoe_name =
                    IF g.some /\ \E kv \in dict : kv[1] = g.v
                    THEN (CHOOSE kv \in dict : kv[1] = g.v)[2]
                    ELSE IF g.some THEN "Unknown Shoe" ELSE "No Shoe"

(* C4: with no directory given, a row with a gear_id is named "Shoe "       *)
(* followed by the gear_id, and a row without one is named "No Shoe".       *)
C4_SynthesizedNames ==
    (ReportReturned /\ ~last.call.gear_info.some) =>
        \A n \in RowIdx :
            Rows[n].shoe_name =
                IF Rows[n].gear_id.some THEN "Shoe " \o Rows[n].gear_id.v
                ELSE "No Shoe"

C4_Witness ==
    /\ ReportReturned /\ ~last.call.gear_info.some
    /\ \E n, m \in RowIdx :
          /\ Rows[n].shoe_name = "Shoe g1"
          /\ Rows[m].shoe_name = "Shoe g2"

(* the buckets of two rows in the order of the returned report's labels:    *)
(* strings compare character by character, years as numbers                 *)
BucketGE(a, b) ==
    IF last.call.method = "yearly" THEN a >= b
    ELSE \/ a = b
         \/ \E k \in 1..Len(a) :
               /\ k <= Len(b)
               /\ \A j \in 1..(k - 1) : a[j] = b[j]
               /\ a[k] > b[k]
         \/ Len(a) > Len(b) /\ \A j \in 1..Len(b) : a[j] = b[j]

(* C5: in a weekly, monthly or yearly report the bucket of each row is      *)
(* greater than or equal to the bucket of the row after it.                 *)
C5_NonIncreasing ==
    BucketReturned =>
        \A n \in RowIdx :
            n < Len(Rows) => BucketGE(Rows[n].bucket, Rows[n + 1].bucket)

C5_Witness ==
    /\ BucketReturned
    /\ Len(Rows) >= 2
    /\ Rows[1].bucket # Rows[Len(Rows)].bucket

(* C6: two calls of the same method with the same argument on one analyzer  *)
(* return identical results, whatever calls ran between them.               *)
C6_SameCallSameResult ==
    \A t, u \in Threads :
        (pc[t] = "returned" /\ pc[u] = "returned" /\ call[t] = call[u]) =>
            result[t] = result[u]

C6_Witness ==
    \E t, u \in Threads :
        /\ t # u
        /\ pc[t] = "returned" /\ pc[u] = "returned"
        /\ call[t] = call[u]
        /\ Len(result[t].rows) >= 2

(* the result of a call run alone on the rows as normalized at construction *)
RunAlone(c) ==
    LET d == [i \in ActIdx |-> Record(activities[i])]
    IN  IF Len(d) = 0 THEN EmptyFrame ELSE Body(c, d)

(* C7: under any interleaving of report calls the normalized rows stay as   *)
(* constructed, and every call returns what it returns when run alone.      *)
C7_RowsNeverMutated ==
    constructed =>
        /\ Len(df) = Len(activities)
        /\ \A i \in ActIdx : df[i] = Record(activities[i])
        /\ \A t \in Threads : pc[t] = "returned" => result[t] = RunAlone(call[t])

C7_Witness ==
    /\ \A t \in Threads : pc[t] = "returned"
    /\ \E t \in Threads : call[t].method = "activities" /\ call[t].gear_id.some
    /\ \E t \in Threads : Len(result[t].rows) >= 2

(* C8: an analyzer built from the empty sequence has no normalized rows and *)
(* every report call returns an empty result without raising.               *)
C8_EmptyInput ==
    (constructed /\ activities = <<>>) =>
        /\ Len(df) = 0
        /\ last.result.error = "none"
        /\ Len(last.result.rows) = 0

C8_Witness ==
    /\ constructed /\ activities = <<>>
    /\ last.call.method = "activities" /\ last.call.gear_id.some

(* C9: normalization yields one row per input activity in input order, the  *)
(* i-th row carrying the identifier of the i-th activity.                   *)
C9_OneRowPerActivity ==
    constructed =>
        /\ Len(df) = Len(activities)
        /\ \A i \in ActIdx : df[i].id = activities[i].id

C9_Witness ==
    /\ constructed
    /\ Len(activities) = 2
    /\ activities[1].id = activities[2].id

NumericColumns ==
    {"distance_km", "moving_time_hours", "elapsed_time_hours", "elevation_gain_m"}

(* the raw number of an optional input field, 0 when absent *)
RawOrZero(o) == IF o.some THEN o.v ELSE 0

(* the fraction x is the integer k divided by the integer by *)
IsQuotient(x, k, by) == x.d > 0 /\ x.n * by = k * x.d

Converted(r, a) ==
    /\ IsQuotient(r.distance_km, RawOrZero(a.distance), 1000)
    /\ IsQuotient(r.moving_time_hours, RawOrZero(a.moving_time), 3600)
    /\ IsQuotient(r.elapsed_time_hours, RawOrZero(a.elapsed_time), 3600)
    /\ IsQuotient(r.elevation_gain_m, RawOrZero(a.total_elevation_gain), 1)

(* C10 as stated: every numeric field of every normalized row is finite and *)
(* >= 0, converted by /1000, /3600 and as given, also for a negative gain.  *)
C10_AllNonNegative ==
    constructed =>
        \A i \in ActIdx :
            /\ Converted(df[i], activities[i])
            /\ \A col \in NumericColumns : df[i][col].n >= 0

(* C10 amended: every numeric field is finite and converted by /1000, /3600 *)
(* and as given; distance and the two times are >= 0, and elevation_gain_m  *)
(* is negative exactly when the input gain is negative.                     *)
C10_ConvertedAsGiven ==
    constructed =>
        \A i \in ActIdx :
            /\ Converted(df[i], activities[i])
            /\ \A col \in NumericColumns \ {"elevation_gain_m"} : df[i][col].n >= 0
            /\ df[i].elevation_gain_m.n < 0
                  <=> RawOrZero(activities[i].total_elevation_gain) < 0

C10_Witness ==
    /\ constructed
    /\ \E i \in ActIdx :
          /\ activities[i].total_elevation_gain.some
          /\ activities[i].total_elevation_gain.v < 0
          /\ df[i].elevation_gain_m.n < 0
    /\ \E i \in ActIdx : ~activities[i].distance.some /\ df[i].distance_km.n = 0

ActivitiesReturned == constructed /\ last.call.method = "activities"

(* the seven columns get_activities_by_shoe keeps of a normalized row *)
Projected(r) ==
    [date |-> r.date, name |-> r.name, type |-> r.type,
     distance_km |-> r.distance_km, moving_time_hours |-> r.moving_time_hours,
     elevation_gain_m |-> r.elevation_gain_m, gear_id |-> r.gear_id]

(* the returned rows are the projections of the normalized rows in `keep`,  *)
(* each as often as it occurs there                                         *)
ReturnsExactly(keep) ==
    /\ Len(Rows) = Cardinality(keep)
    /\ \A i \in keep :
          Cardinality({n \in RowIdx : Rows[n] = Projected(df[i])})
              = Cardinality({j \in keep : Projected(df[j]) = Projected(df[i])})

(* a date a is on or after a date b *)
OnOrAfter(a, b) ==
    \/ a.year > b.year
    \/ a.year = b.year /\ a.month > b.month
    \/ a.year = b.year /\ a.month = b.month /\ a.day >= b.day

DateDescending ==
    \A n, m \in RowIdx :
        (n < m /\ Rows[n].date.some /\ Rows[m].date.some) =>
            OnOrAfter(Rows[n].date.v, Rows[m].date.v)

(* C11 as stated: called with any given gear_id g, get_activities_by_shoe   *)
(* returns exactly the normalized rows whose gear_id equals g, projected    *)
(* and in date-descending order; called without one it returns all rows.    *)
C11_FilterAnyGiven ==
    ActivitiesReturned =>
        /\ DateDescending
        /\ IF last.call.gear_id.some
           THEN ReturnsExactly({i \in 1..Len(df) :
                    df[i].gear_id.some /\ df[i].gear_id.v = last.call.gear_id.v})
           ELSE ReturnsExactly(1..Len(df))

(* C11 amended: called with a non-empty gear_id g it returns exactly the    *)
(* normalized rows whose gear_id equals g; called without a gear_id, or     *)
(* with the empty string, it returns all rows; always projected and in      *)
(* date-descending order.                                                   *)
C11_FilterNonEmpty ==
    ActivitiesReturned =>
        /\ DateDescending
        /\ IF last.call.gear_id.some /\ last.call.gear_id.v # ""
           THEN ReturnsExactly({i \in 1..Len(df) :
                    df[i].gear_id.some /\ df[i].gear_id.v = last.call.gear_id.v})
           ELSE ReturnsExactly(1..Len(df))

C11_Witness ==
    /\ ActivitiesReturned
    /\ last.call.gear_id = Some("g1")
    /\ Len(df) = 2
    /\ Len(Rows) = 1
    /\ \E i \in 1..Len(df) : df[i].gear_id = Some("g2")

Undated == {i \in ActIdx : ~activities[i].start_date_local.some}

(* the gear_id an activity is grouped under: null when absent or empty *)
GroupGear(a) == IF NoGear(a) THEN NoneStr ELSE a.gear_id

(* the normalized rows of the input with the undated activities removed *)
DatedOnly ==
    LET dated == SelectSeq(activities, LAMBDA a : a.start_date_local.some)
    IN  [i \in 1..Len(dated) |-> Record(dated[i])]

(* an undated activity has a row in the shoe summary that counts it *)
UndatedInSummary ==
    \A i \in Undated :
        \E n \in RowIdx :
            /\ Rows[n].gear_id = GroupGear(activities[i])
            /\ Rows[n].activity_count =
                  Cardinality({j \in ActIdx :
                      GroupGear(activities[j]) = GroupGear(activities[i])})

(* an unfiltered activity listing returns the undated activities too *)
UndatedListed ==
    /\ Len(Rows) = Len(activities)
    /\ \A i \in Undated :
          \E n \in RowIdx : Rows[n].name = activities[i].name /\ ~Rows[n].date.some

(* a bucketed report is the report of the dated activities alone *)
UndatedInNoBucket ==
    /\ last.result.error = "none"
    /\ Rows = BucketReport(last.call.method, DatedOnly, last.call.gear_info).rows

(* C12: an activity without a start timestamp is normalized, counted in the *)
(* shoe summary and listed by get_activities_by_shoe, is in no group of the *)
(* weekly, monthly or yearly report, raises no error and leaves the groups  *)
(* of the dated activities as they are.                                     *)
C12_UndatedRows ==
    constructed =>
        /\ Len(df) = Len(activities)
        /\ last.call.method = "summary" => UndatedInSummary
        /\ (last.call.method = "activities" /\ ~TruthyStr(last.call.gear_id))
              => UndatedListed
        /\ BucketReturned => UndatedInNoBucket

(* the same, for the undated activities that have a gear_id *)
C12_UndatedWithGear ==
    constructed =>
        /\ Len(df) = Len(activities)
        /\ (last.call.method = "summary"
              /\ \A i \in Undated : ~NoGear(activities[i])) => UndatedInSummary
        /\ (last.call.method = "activities" /\ ~TruthyStr(last.call.gear_id))
              => UndatedListed
        /\ BucketReturned => UndatedInNoBucket

(* the input activities grouped into the returned row n: the same          *)
(* normalized gear_id and, in a bucketed report, the same bucket           *)
MembersOf(n) ==
    {i \in 1..Len(df) :
        /\ df[i].gear_id = Rows[n].gear_id
        /\ CASE last.call.method = "summary" -> TRUE
             [] last.call.method = "weekly" ->
                   df[i].year_week.some /\ df[i].year_week.v = Rows[n].bucket
             [] last.call.method = "monthly" ->
                   df[i].year_month.some /\ df[i].year_month.v = Rows[n].bucket
             [] last.call.method = "yearly" ->
                   df[i].year.some /\ df[i].year.v = Rows[n].bucket}

(* every normalized value is a whole number of 1/Scale: Scale is the least *)
(* common multiple of the divisors 1000 and 3600                           *)
Scale == 5 * 3600

(* numerator, over the denominator Scale, of the exact sum of a column     *)
RECURSIVE ScaledSum(_, _)
ScaledSum(column, members) ==
    IF members = {} THEN 0
    ELSE LET i == CHOOSE j \in members : TRUE
         IN  (df[i][column].n * Scale) \div df[i][column].d
                 + ScaledSum(column, members \ {i})

(* the fraction out in hundredths, rounded down *)
Hundredths(out) == (out.n * 100) \div out.d

(* the fraction out is within half a hundredth of sum / Scale *)
IsSumRounded(out, sum) ==
    LET diff == Hundredths(out) * Scale - 100 * sum
    IN  /\ Hundredths(out) * out.d = out.n * 100
        /\ -(Scale \div 2) <= diff /\ diff <= Scale \div 2

TotalOf(n, column) ==
    IF last.call.method = "summary"
    THEN CASE column = "distance_km" -> Rows[n].total_distance_km
           [] column = "moving_time_hours" -> Rows[n].total_moving_time_hours
           [] column = "elevation_gain_m" -> Rows[n].total_elevation_gain_m
    ELSE Rows[n][column]

SummedColumns == {"distance_km", "moving_time_hours", "elevation_gain_m"}

(* C13: each row of a report totals, up to the rounding of the result, the  *)
(* distance, moving time and elevation gain of exactly the normalized rows  *)
(* that have its (bucket, gear_id) key, and counts those rows.              *)
C13_TotalsOfTheGroup ==
    ReportReturned =>
        \A n \in RowIdx :
            /\ Rows[n].activity_count = Cardinality(MembersOf(n))
            /\ \A col \in SummedColumns :
                  IsSumRounded(TotalOf(n, col), ScaledSum(col, MembersOf(n)))

C13_Witness ==
    /\ ReportReturned
    /\ last.call.method = "summary"
    /\ activities = <<LongRun, Easy>>
    /\ \E n \in RowIdx :
          /\ Rows[n].gear_id = Some("g1")
          /\ Rows[n].total_distance_km = [n |-> 10, d |-> 1]
          /\ Rows[n].total_moving_time_hours = [n |-> 1, d |-> 1]
          /\ Rows[n].total_elevation_gain_m = [n |-> 100, d |-> 1]
          /\ Rows[n].activity_count = 1

(* out is the multiple of 1/100 nearest to sum / Scale, the even one of two *)
(* equally near                                                            *)
IsRoundHalfEven(out, sum) ==
    LET k == Hundredths(out)
        diff == 2 * (k * Scale - 100 * sum)
    IN  /\ -Scale <= diff /\ diff <= Scale
        /\ (diff = Scale \/ diff = -Scale) => k % 2 = 0

(* C14: every summed field of every report row is a whole number of        *)
(* hundredths: the group's exact sum rounded to 2 decimal places, the sum  *)
(* taken first and rounded once.                                           *)
C14_TwoDecimals ==
    ReportReturned =>
        \A n \in RowIdx :
            \A col \in SummedColumns :
                /\ 100 % TotalOf(n, col).d = 0
                /\ IsRoundHalfEven(TotalOf(n, col), ScaledSum(col, MembersOf(n)))

(* two activities of 1.005 km in one group total 2.01 km, which no sum of  *)
(* two values rounded beforehand (1.00 or 1.01 each) gives                 *)
C14_Witness ==
    /\ ReportReturned
    /\ activities = <<Recovery, Recovery>>
    /\ \A i \in 1..Len(df) : df[i].distance_km = [n |-> 201, d |-> 200]
    /\ \A n \in RowIdx : TotalOf(n, "distance_km") = [n |-> 201, d |-> 100]
    /\ Len(Rows) = 1

Dated == {i \in 1..Len(df) : df[i].date.some}

(* the Sundays of the date's year that fall on or before the date *)
SundaysSoFar(dt) ==
    LET jan1 == Ordinal([year |-> dt.year, month |-> 1, day |-> 1])
    IN  Cardinality({k \in 1..DayOfYear(dt) : (jan1 + k - 1) % 7 = 0})

(* the characters of "YYYY-Www" *)
WeekLabel(y, w) ==
    <<48 + (y \div 1000), 48 + ((y \div 100) % 10), 48 + ((y \div 10) % 10),
      48 + (y % 10), 45, 87, 48 + (w \div 10), 48 + (w % 10)>>

(* the Sunday that starts the date's Sunday-to-Saturday week *)
WeekStart(dt) == Ordinal(dt) - (Ordinal(dt) % 7)

(* C15: year_week is the year of the local start date, "-W" and the two-    *)
(* digit number of Sundays of that year up to the date (00 before the first *)
(* Sunday); two activities share a weekly bucket exactly when they share    *)
(* the year and that number.                                                *)
C15_SundayWeekOfYear ==
    constructed =>
        /\ \A i \in Dated :
              /\ df[i].year_week.some
              /\ df[i].year_week.v =
                    WeekLabel(df[i].date.v.year, SundaysSoFar(df[i].date.v))
        /\ \A i, j \in Dated :
              df[i].year_week = df[j].year_week
                  <=> /\ df[i].date.v.year = df[j].date.v.year
                      /\ SundaysSoFar(df[i].date.v) = SundaysSoFar(df[j].date.v)
        /\ last.call.method = "weekly" =>
              \A n \in RowIdx :
                  \E i \in Dated : Rows[n].bucket = df[i].year_week.v

(* a weekly report of two activities of one Sunday-to-Saturday week, one on *)
(* 31 December (week 53) and one in the next January (week 00)              *)
C15_Witness ==
    /\ constructed /\ last.call.method = "weekly"
    /\ Len(Rows) = 2
    /\ Rows[1].bucket = WeekLabel(2024, 0)
    /\ Rows[2].bucket = WeekLabel(2023, 53)
    /\ \E i, j \in Dated :
          /\ WeekStart(df[i].date.v) = WeekStart(df[j].date.v)
          /\ df[i].date.v.year # df[j].date.v.year

(* the group key of a returned row: its gear_id, with the bucket if any *)
SameKey(n, m) ==
    /\ Rows[n].gear_id = Rows[m].gear_id
    /\ last.call.method # "summary" => Rows[n].bucket = Rows[m].bucket

(* C16: no two rows of a report have the same gear_id (shoe summary) or the *)
(* same (bucket, gear_id) pair (weekly, monthly, yearly), and every row has *)
(* activity_count >= 1.                                                     *)
C16_OneRowPerKey ==
    ReportReturned =>
        /\ \A n, m \in RowIdx : SameKey(n, m) => n = m
        /\ \A n \in RowIdx : Rows[n].activity_count >= 1

C16_Witness ==
    /\ ReportReturned
    /\ Len(activities) = 2
    /\ Len(Rows) = 1
    /\ Rows[1].activity_count = 2

(* the rows the returned call yields when its argument is left out *)
RowsWithoutArgument ==
    IF Len(df) = 0 THEN <<>>
    ELSE Body(Call(last.call.method, NoneDict, NoneStr), df).rows

====
